---- MODULE Spec2Model ----
(***************************************************************************)
(* Model of password_checker.py: the heuristic grading engine              *)
(* (entropy_bits, repeated_sequence_score, keyboard_pattern_score,         *)
(* is_common_password, load_common_passwords, grade_password).             *)
(*                                                                         *)
(* A Python str is a sequence of one-character strings.  A float such as   *)
(* the entropy estimate only ever holds an integer value here (0.0 or      *)
(* len * bit_length), so it is an integer.  A set argument that may be     *)
(* None is a record [isNone, items].  A call that may raise returns a      *)
(* record [raised, value].                                                 *)
(***************************************************************************)
EXTENDS Integers, Sequences, FiniteSets, TLC

VARIABLES pw, text, common_set, found, report, prev, pc

vars == <<pw, text, common_set, found, report, prev, pc>>

----------------------------------------------------------------------------
(* Bounds of the model *)

\* passwords of every length up to MaxLen over Alphabet
MaxLen == 4
\* passwords that are concatenations of up to MaxWords of Words
MaxWords == 3
\* passwords of the batch specification: up to MaxPairWords of PairWords
MaxPairWords == 2

----------------------------------------------------------------------------
(* Characters and strings *)

LowerLetters == <<"a","b","c","d","e","f","g","h","i","j","k","l","m",
                  "n","o","p","q","r","s","t","u","v","w","x","y","z">>

UpperLetters == <<"A","B","C","D","E","F","G","H","I","J","K","L","M",
                  "N","O","P","Q","R","S","T","U","V","W","X","Y","Z">>

DigitChars == {"0","1","2","3","4","5","6","7","8","9"}

\* The characters of the model are ASCII.  The control characters that have
\* no escape in a string are written raw: vertical tab (0x0B) and the file,
\* group, record and unit separators (0x1C to 0x1F).
VT == ""
FS == ""
GS == ""
RS == ""
US == ""

\* the ASCII characters str.strip() removes (those str.isspace() accepts)
Whitespace == {" ", "\t", "\n", "\r", "\f", VT, FS, GS, RS, US}

IsLower(c) == \E i \in 1..Len(LowerLetters) : LowerLetters[i] = c
IsUpper(c) == \E i \in 1..Len(UpperLetters) : UpperLetters[i] = c
IsDigit(c) == c \in DigitChars

\* re.search(r'[a-z]', s), r'[A-Z]', r'[0-9]', r'[^a-zA-Z0-9]' as booleans.
\* A negated class matches every other character, the line break included.
search_lower(s) == \E i \in 1..Len(s) : IsLower(s[i])
search_upper(s) == \E i \in 1..Len(s) : IsUpper(s[i])
search_digit(s) == \E i \in 1..Len(s) : IsDigit(s[i])
search_symbol(s) ==
    \E i \in 1..Len(s) : ~IsLower(s[i]) /\ ~IsUpper(s[i]) /\ ~IsDigit(s[i])

\* str.lower() on one ASCII character
lower_char(c) ==
    IF IsUpper(c)
    THEN LowerLetters[CHOOSE i \in 1..Len(UpperLetters) : UpperLetters[i] = c]
    ELSE c

\* str.lower()
RECURSIVE lower(_)
lower(s) == IF s = <<>> THEN <<>> ELSE <<lower_char(Head(s))>> \o lower(Tail(s))

\* seq * k
RECURSIVE repeat(_, _)
repeat(seq, k) == IF k <= 0 THEN <<>> ELSE seq \o repeat(seq, k - 1)

\* pat in s
contains(s, pat) ==
    \E k \in 0..(Len(s) - Len(pat)) : SubSeq(s, k + 1, k + Len(pat)) = pat

\* str.strip()
strip(s) ==
    LET keep == {i \in 1..Len(s) : s[i] \notin Whitespace}
    IN  IF keep = {} THEN <<>>
        ELSE SubSeq(s, CHOOSE i \in keep : \A j \in keep : i <= j,
                       CHOOSE i \in keep : \A j \in keep : i >= j)

\* int.bit_length()
RECURSIVE bit_length(_)
bit_length(n) == IF n = 0 THEN 0 ELSE 1 + bit_length(n \div 2)

----------------------------------------------------------------------------
(* entropy_bits *)

entropy_bits_sym30(password) ==
    LET charset == (IF search_lower(password) THEN 26 ELSE 0)
                 + (IF search_upper(password) THEN 26 ELSE 0)
                 + (IF search_digit(password) THEN 10 ELSE 0)
                 + (IF search_symbol(password) THEN 30 ELSE 0)
    IN  IF charset = 0 THEN 0 ELSE Len(password) * bit_length(charset)

entropy_bits(password) ==
    LET charset == (IF search_lower(password) THEN 26 ELSE 0)
                 + (IF search_upper(password) THEN 26 ELSE 0)
                 + (IF search_digit(password) THEN 10 ELSE 0)
                 + (IF search_symbol(password) THEN 32 ELSE 0)
    IN  IF charset = 0 THEN 0 ELSE Len(password) * bit_length(charset)

----------------------------------------------------------------------------
(* repeated_sequence_score *)

\* the loop of lines 22-25: some prefix, repeated len//i times, is the password
whole_repeat(password) ==
    \E i \in 1..(Len(password) \div 2) :
        repeat(SubSeq(password, 1, i), Len(password) \div i) = password

\* re.search(r'(.)\1{2,}', password): '.' matches any character but "\n"
run_search(password) ==
    \E j \in 1..(Len(password) - 2) :
        /\ password[j] # "\n"
        /\ password[j + 1] = password[j]
        /\ password[j + 2] = password[j]

repeated_sequence_score(password) ==
    IF whole_repeat(password) THEN 1
    ELSE IF run_search(password) THEN 1
    ELSE 0

----------------------------------------------------------------------------
(* keyboard_pattern_score *)

patterns == << <<"q","w","e","r","t","y">>,
               <<"a","s","d","f">>,
               <<"z","x","c","v">>,
               <<"1","2","3","4","5">>,
               <<"p","a","s","s","w","o","r","d">> >>

keyboard_pattern_score_noqwerty(password) ==
    IF \E k \in 2..Len(patterns) : contains(lower(password), patterns[k])
    THEN 1 ELSE 0

keyboard_pattern_score(password) ==
    IF \E k \in 1..Len(patterns) : contains(lower(password), patterns[k])
    THEN 1 ELSE 0

----------------------------------------------------------------------------
(* is_common_password, load_common_passwords *)

None == [isNone |-> TRUE, items |-> {}]
SetOf(s) == [isNone |-> FALSE, items |-> s]

\* truth value of `common_set` in `if common_set and ...`
truthy(cs) == ~cs.isNone /\ cs.items # {}

Returned(v) == [raised |-> "", value |-> v]
Raised(e) == [raised |-> e, value |-> FALSE]

is_common_password_exact(password, cs) ==
    IF cs.isNone THEN Raised("TypeError")
    ELSE Returned(password \in cs.items)

\* `x in None` raises TypeError
is_common_password(password, cs) ==
    IF cs.isNone THEN Raised("TypeError")
    ELSE Returned(password \in cs.items \/ lower(password) \in cs.items)

\* text mode with universal newlines: "\r\n" and "\r" are read as "\n"
RECURSIVE universal_newlines(_)
universal_newlines(t) ==
    IF t = <<>> THEN <<>>
    ELSE IF Head(t) = "\r"
         THEN IF Len(t) >= 2 /\ t[2] = "\n"
              THEN <<"\n">> \o universal_newlines(Tail(Tail(t)))
              ELSE <<"\n">> \o universal_newlines(Tail(t))
         ELSE <<Head(t)>> \o universal_newlines(Tail(t))

\* `for line in f`: the lines of the text, each with its terminator
RECURSIVE readlines(_)
readlines(t) ==
    IF t = <<>> THEN <<>>
    ELSE LET nl == {i \in 1..Len(t) : t[i] = "\n"}
         IN  IF nl = {} THEN <<t>>
             ELSE LET k == CHOOSE i \in nl : \A j \in nl : i <= j
                  IN  <<SubSeq(t, 1, k)>> \o readlines(SubSeq(t, k + 1, Len(t)))

load_common_passwords_nolower(t) ==
    LET lines == readlines(universal_newlines(t))
        kept == {strip(lines[i]) : i \in 1..Len(lines)} \ {<<>>}
    IN  kept

load_common_passwords(t) ==
    LET lines == readlines(universal_newlines(t))
        kept == {strip(lines[i]) : i \in 1..Len(lines)} \ {<<>>}
    IN  kept \cup {lower(l) : l \in kept}

----------------------------------------------------------------------------
(* grade_password *)

MsgShort   == "Password length is short (< 8)."
MsgLower   == "Add lowercase letters (a-z)."
MsgUpper   == "Add uppercase letters (A-Z)."
MsgDigit   == "Add digits (0-9)."
MsgSymbol  == "Add symbols or punctuation (e.g. !@#)."
MsgRepeat  == "Repeated characters or patterns in password."
MsgKeypat  == "Contains a known keyboard pattern (e.g. qwerty or 12345)."
\* (the source text has an em dash where this string has "--")
MsgCommon  == "Password is found in the common passwords list -- change it immediately!"

SugLonger  == "Make the password 12 characters or longer for better security."
SugPhrase  == "Use a long passphrase instead of a short password."
SugCombine == "Combine uppercase, lowercase, digits, and symbols."
SugAvoid   == "Avoid known words or keyboard patterns."
SugManager == "Use a password manager to generate and store strong, unique passwords for each site."

\* `issues = []; score = 0`
start == [score |-> 0, issues |-> <<>>]

check_length_penalised(st, length) ==
    IF length < 8
    THEN [score |-> st.score - 1, issues |-> Append(st.issues, MsgShort)]
    ELSE [st EXCEPT !.score = @ + 1]

\* `if length < 8: issues.append(...) else: score += 1`
check_length(st, length) ==
    IF length < 8
    THEN [st EXCEPT !.issues = Append(@, MsgShort)]
    ELSE [st EXCEPT !.score = @ + 1]

check_class_penalised(st, present, msg) ==
    IF present
    THEN [st EXCEPT !.score = @ + 1]
    ELSE [score |-> st.score - 1, issues |-> Append(st.issues, msg)]

check_class_swapped(st, present, msg) ==
    IF present
    THEN [st EXCEPT !.issues = Append(@, msg)]
    ELSE [st EXCEPT !.score = @ + 1]

\* `if has_x: score += 1 else: issues.append(...)`
check_class(st, present, msg) ==
    IF present
    THEN [st EXCEPT !.score = @ + 1]
    ELSE [st EXCEPT !.issues = Append(@, msg)]

\* `score -= (rep + keypat)` and the two pattern issues
check_patterns(st, rep, keypat) ==
    LET i1 == IF rep # 0 THEN Append(st.issues, MsgRepeat) ELSE st.issues
        i2 == IF keypat # 0 THEN Append(i1, MsgKeypat) ELSE i1
    IN  [score |-> st.score - (rep + keypat), issues |-> i2]

check_common_minus4(st, password, cs) ==
    IF truthy(cs) /\ is_common_password(password, cs).value
    THEN [score |-> st.score - 4, issues |-> Append(st.issues, MsgCommon)]
    ELSE st

\* `if common_set and is_common_password(pw, common_set): ...; score -= 5`
\* (`and` short-circuits: the lookup is not called on None or an empty set)
check_common(st, password, cs) ==
    IF truthy(cs) /\ is_common_password(password, cs).value
    THEN [score |-> st.score - 5, issues |-> Append(st.issues, MsgCommon)]
    ELSE st

strength_of_score_first(ent, score) ==
    IF score >= 3 THEN "Very strong"
    ELSE IF ent >= 45 /\ score >= 1 THEN "Strong"
    ELSE IF ent >= 28 THEN "Medium"
    ELSE "Weak"

\* the if/elif chain that sets `strength`
strength_of(ent, score) ==
    IF ent >= 60 /\ score >= 3 THEN "Very strong"
    ELSE IF ent >= 45 /\ score >= 1 THEN "Strong"
    ELSE IF ent >= 28 THEN "Medium"
    ELSE "Weak"

\* the `suggestions` list
suggestions_for(length) ==
    (IF length < 12 THEN <<SugLonger>> ELSE <<>>)
    \o <<SugPhrase, SugCombine, SugAvoid, SugManager>>

grade_password(password, cs) ==
    LET ent        == entropy_bits(password)
        length     == Len(password)
        has_lower  == search_lower(password)
        has_upper  == search_upper(password)
        has_digit  == search_digit(password)
        has_symbol == search_symbol(password)
        s1 == check_length(start, length)
        s2 == check_class(s1, has_lower, MsgLower)
        s3 == check_class(s2, has_upper, MsgUpper)
        s4 == check_class(s3, has_digit, MsgDigit)
        s5 == check_class(s4, has_symbol, MsgSymbol)
        rep    == repeated_sequence_score(password)
        keypat == keyboard_pattern_score(password)
        s6 == check_patterns(s5, rep, keypat)
        s7 == check_common(s6, password, cs)
    IN  [password     |-> password,
         length       |-> length,
         entropy_bits |-> ent,
         score_metric |-> s7.score,
         strength     |-> strength_of(ent, s7.score),
         issues       |-> s7.issues,
         suggestions  |-> suggestions_for(length)]

----------------------------------------------------------------------------
(* Inputs *)

Alphabet == {"a", "A", "1", "!", "\n"}

ShortStrings == UNION {[1..n -> Alphabet] : n \in 0..MaxLen}

W_qwerty    == <<"q","w","e","r","t","y">>
W_123       == <<"1","2","3">>
W_abc       == <<"a","b","c">>
W_def       == <<"d","e","f">>
W_D1bang    == <<"D","1","!">>
W_Password1 == <<"P","a","s","s","w","o","r","d","1">>
W_password1 == <<"p","a","s","s","w","o","r","d","1">>
W_PASSWORD1 == <<"P","A","S","S","W","O","R","D","1">>
W_letmein   == <<"l","e","t","m","e","i","n">>
W_newlines  == <<"a", "\n", "\n", "\n", "b">>
W_MyQwerty  == <<"M","y","Q","w","e","r","t","y","P","a","s","s","1","!">>
W_Xk9       == <<"X","k","9","#","m","Z","2","!","q","L">>

W_ababab    == <<"a","b","a","b","a","b">>

Words == {W_qwerty, W_123, W_abc, W_def, W_D1bang}

\* further passwords of the spec's examples
Examples == {W_Password1, W_password1, W_PASSWORD1, W_letmein, W_MyQwerty,
             W_Xk9, W_newlines, W_ababab}

RECURSIVE Concat(_)
Concat(ws) == IF ws = <<>> THEN <<>> ELSE Head(ws) \o Concat(Tail(ws))

WordStrings ==
    UNION {{Concat(ws) : ws \in [1..n -> Words]} : n \in 1..MaxWords}

Passwords == ShortStrings \cup WordStrings \cup Examples

W_abcdefgh == <<"a","b","c","d","e","f","g","h">>
W_abcdefgH == <<"a","b","c","d","e","f","g","H">>

W_asdf     == <<"a","s","d","f">>
W_asdf1b   == <<"a","s","d","f","1","!">>

PairWords == {W_abcdefgh, W_abcdefgH, W_asdf, W_asdf1b}

PairPasswords ==
    UNION {{Concat(ws) : ws \in [1..n -> PairWords]} : n \in 0..MaxPairWords}

\* the file of the spec's dictionary example
ExampleText == W_Password1 \o <<"\n">> \o W_letmein \o <<"\n">>

\* contents of the common-password file offered to the loader
Texts(p) == {ExampleText,
             p \o <<"\n">>,
             lower(p) \o <<"\n">>,
             <<" ", VT>> \o p \o <<US, " ", "\n", "\n", FS>> \o W_letmein \o <<"\t">>,
             <<"\n", " ", "\n">>}

\* the common-password file of the batch specification
BatchText == W_abcdefgh \o <<"\n">> \o W_asdf \o W_asdf \o <<"\n">>
             \o W_asdf1b \o W_asdf1b \o <<"\n">>

----------------------------------------------------------------------------
(* The host: build the set once, then look the password up and grade it *)

NoText   == <<"<", "n", "o", " ", "f", "i", "l", "e", ">">>
NoResult == [raised |-> "not called", value |-> FALSE]
NoReport == [password     |-> <<>>,
             length       |-> -1,
             entropy_bits |-> -1,
             score_metric |-> 0,
             strength     |-> "none",
             issues       |-> <<>>,
             suggestions  |-> <<>>]

Init ==
    /\ pw \in Passwords
    /\ text = NoText
    /\ common_set = None
    /\ found = NoResult
    /\ report = NoReport
    /\ prev = NoReport
    /\ pc = "start"

\* main: `common_set = load_common_passwords(path)`
Load ==
    /\ pc = "start"
    /\ \E t \in Texts(pw) :
          /\ text' = t
          /\ common_set' = SetOf(load_common_passwords(t))
    /\ pc' = "ready"
    /\ UNCHANGED <<pw, found, report, prev>>

\* main: `common_set = set()` when no file is given or the file is missing
UseEmpty ==
    /\ pc = "start"
    /\ common_set' = SetOf({})
    /\ pc' = "ready"
    /\ UNCHANGED <<pw, text, found, report, prev>>

\* a caller that passes no set: grade_password's default `common_set = None`
UseNone ==
    /\ pc = "start"
    /\ common_set' = None
    /\ pc' = "ready"
    /\ UNCHANGED <<pw, text, found, report, prev>>

\* a call of is_common_password(pw, common_set)
Lookup ==
    /\ pc = "ready"
    /\ found = NoResult
    /\ found' = is_common_password(pw, common_set)
    /\ UNCHANGED <<pw, text, common_set, report, prev, pc>>

\* main: `report = grade_password(pw, common_set)`
Grade ==
    /\ pc = "ready"
    /\ report = NoReport
    /\ report' = grade_password(pw, common_set)
    /\ UNCHANGED <<pw, text, common_set, found, prev, pc>>

Next == Load \/ UseEmpty \/ UseNone \/ Lookup \/ Grade

Spec == Init /\ [][Next]_vars

----------------------------------------------------------------------------
(* A batch of checks against one set: the host grades one password after  *)
(* another and keeps the previous report                                   *)

InitBatch ==
    /\ pw \in PairPasswords
    /\ text = NoText
    /\ common_set = None
    /\ found = NoResult
    /\ report = NoReport
    /\ prev = NoReport
    /\ pc = "start"

\* `common_set = load_common_passwords(path)`, once for the batch
LoadBatch ==
    /\ pc = "start"
    /\ text' = BatchText
    /\ common_set' = SetOf(load_common_passwords(BatchText))
    /\ pc' = "ready"
    /\ UNCHANGED <<pw, found, report, prev>>

\* the next password of the batch; the report of the last one is kept
NextPassword ==
    /\ pc = "ready"
    /\ report # NoReport
    /\ prev' = report
    /\ report' = NoReport
    /\ pw' \in PairPasswords
    /\ UNCHANGED <<text, common_set, found, pc>>

NextBatch == LoadBatch \/ UseEmpty \/ UseNone \/ Grade \/ NextPassword

SpecBatch == InitBatch /\ [][NextBatch]_vars

----------------------------------------------------------------------------
(* Properties *)

Graded == report # NoReport
Labels == {"Weak", "Medium", "Strong", "Very strong"}
HasIssue(r, msg) == \E i \in 1..Len(r.issues) : r.issues[i] = msg

\* the character classes present in a password
Classes(p) == {c \in {"lower", "upper", "digit", "symbol"} :
                  \/ c = "lower"  /\ search_lower(p)
                  \/ c = "upper"  /\ search_upper(p)
                  \/ c = "digit"  /\ search_digit(p)
                  \/ c = "symbol" /\ search_symbol(p)}

\* the password or its lowercased form is in a supplied, non-empty set
InSet(p, cs) == truthy(cs) /\ (p \in cs.items \/ lower(p) \in cs.items)

\* C1: the strength label of a report is the first match of: entropy >= 60
\* and score >= 3, "Very strong"; entropy >= 45 and score >= 1, "Strong";
\* entropy >= 28, "Medium"; otherwise "Weak"; it is one of these four.
C1_StrengthFirstMatch ==
    Graded =>
        LET e == report.entropy_bits
            s == report.score_metric
            vs == e >= 60 /\ s >= 3
            st == ~vs /\ e >= 45 /\ s >= 1
            md == ~vs /\ ~st /\ e >= 28
        IN  /\ report.strength \in Labels
            /\ (report.strength = "Very strong") <=> vs
            /\ (report.strength = "Strong") <=> st
            /\ (report.strength = "Medium") <=> md
            /\ (report.strength = "Weak") <=> (~vs /\ ~st /\ ~md)

\* an entropy of 60 or more with a score below 3 falls through to "Strong"
C1_Witness ==
    /\ Graded
    /\ report.strength = "Strong"
    /\ report.entropy_bits >= 60
    /\ report.score_metric < 3

\* C2: score_metric is (1 if length >= 8) + (number of classes present)
\* - repeated flag - keyboard flag - (5 if the password is found in a
\* supplied non-empty set); a short length or an absent class adds its issue.
C2_ScoreFormula ==
    Graded =>
        LET p == report.password
        IN  /\ report.score_metric =
                  (IF Len(p) >= 8 THEN 1 ELSE 0)
                  + Cardinality(Classes(p))
                  - repeated_sequence_score(p)
                  - keyboard_pattern_score(p)
                  - (IF InSet(p, common_set) THEN 5 ELSE 0)
            /\ HasIssue(report, MsgShort)  <=> Len(p) < 8
            /\ HasIssue(report, MsgLower)  <=> "lower" \notin Classes(p)
            /\ HasIssue(report, MsgUpper)  <=> "upper" \notin Classes(p)
            /\ HasIssue(report, MsgDigit)  <=> "digit" \notin Classes(p)
            /\ HasIssue(report, MsgSymbol) <=> "symbol" \notin Classes(p)

\* a report where every term of the sum is at work
C2_Witness ==
    /\ Graded
    /\ report.length >= 8
    /\ Cardinality(Classes(report.password)) = 1
    /\ HasIssue(report, MsgRepeat)
    /\ HasIssue(report, MsgKeypat)
    /\ HasIssue(report, MsgCommon)
    /\ report.score_metric = -5

\* C3 as stated: grading "qwerty123" with no set gives length 9, entropy 54,
\* keyboard flag 1, repeated flag 0, score_metric 0 and strength "Medium".
C3_Original ==
    (Graded /\ pw = W_qwerty \o W_123 /\ common_set = None) =>
        /\ report.length = 9
        /\ report.entropy_bits = 54
        /\ HasIssue(report, MsgKeypat)
        /\ ~HasIssue(report, MsgRepeat)
        /\ report.score_metric = 0
        /\ report.strength = "Medium"

\* C3 amended: grading "qwerty123" with no set gives length 9, entropy 54,
\* keyboard flag 1, repeated flag 0, score_metric 2 and strength "Strong".
C3_Qwerty123 ==
    (Graded /\ pw = W_qwerty \o W_123 /\ common_set = None) =>
        /\ report.length = 9
        /\ report.entropy_bits = 54
        /\ HasIssue(report, MsgKeypat)
        /\ ~HasIssue(report, MsgRepeat)
        /\ report.score_metric = 2
        /\ report.strength = "Strong"

C3_Witness ==
    /\ Graded
    /\ pw = W_qwerty \o W_123
    /\ common_set = None
    /\ report.password = W_qwerty \o W_123
    /\ report.score_metric = 2

\* C4 as stated: grading "" with no set gives length 0, entropy 0, the four
\* class issues, repeated flag 0, keyboard flag 0, score_metric -4, "Weak".
C4_Original ==
    (Graded /\ pw = <<>> /\ common_set = None) =>
        /\ report.length = 0
        /\ report.entropy_bits = 0
        /\ \A m \in {MsgLower, MsgUpper, MsgDigit, MsgSymbol} : HasIssue(report, m)
        /\ ~HasIssue(report, MsgRepeat)
        /\ ~HasIssue(report, MsgKeypat)
        /\ report.score_metric = -4
        /\ report.strength = "Weak"

\* C4 amended: grading "" with no set gives length 0, entropy 0, the four
\* class issues, repeated flag 0, keyboard flag 0, score_metric 0, "Weak".
C4_EmptyPassword ==
    (Graded /\ pw = <<>> /\ common_set = None) =>
        /\ report.length = 0
        /\ report.entropy_bits = 0
        /\ \A m \in {MsgLower, MsgUpper, MsgDigit, MsgSymbol} : HasIssue(report, m)
        /\ ~HasIssue(report, MsgRepeat)
        /\ ~HasIssue(report, MsgKeypat)
        /\ report.score_metric = 0
        /\ report.strength = "Weak"

C4_Witness ==
    /\ Graded
    /\ pw = <<>>
    /\ common_set = None
    /\ report.length = 0
    /\ Len(report.issues) = 5

\* the lookup has been called on the set loaded from the example file
LookedUpInExample ==
    /\ text = ExampleText
    /\ pc = "ready"
    /\ found # NoResult

\* C5 as stated: with the set loaded from the lines "Password1", "letmein",
\* the lookup is true for "Password1" and "password1", false for "PASSWORD1".
C5_Original ==
    LookedUpInExample =>
        /\ pw = W_Password1 => found = Returned(TRUE)
        /\ pw = W_password1 => found = Returned(TRUE)
        /\ pw = W_PASSWORD1 => found = Returned(FALSE)

\* C5 amended: with that set the lookup is true for "Password1", for
\* "password1" and for "PASSWORD1": the password is also looked up
\* lowercased, and the loader has inserted the lowercase form of each line.
C5_DictionaryExample ==
    LookedUpInExample =>
        /\ pw = W_Password1 => found = Returned(TRUE)
        /\ pw = W_password1 => found = Returned(TRUE)
        /\ pw = W_PASSWORD1 => found = Returned(TRUE)

C5_Witness ==
    /\ LookedUpInExample
    /\ pw = W_PASSWORD1
    /\ common_set = SetOf({W_Password1, W_password1, W_letmein})
    /\ found = Returned(TRUE)

\* C6: with an empty or an absent (None) set, the lookup returns false and
\* raises nothing, and the report has no common-password issue and no
\* 5-point deduction.
C6_Original ==
    (pc = "ready" /\ (common_set = None \/ common_set = SetOf({}))) =>
        /\ found # NoResult => found = Returned(FALSE)
        /\ Graded =>
              /\ ~HasIssue(report, MsgCommon)
              /\ report.score_metric =
                    (IF report.length >= 8 THEN 1 ELSE 0)
                    + Cardinality(Classes(report.password))
                    - repeated_sequence_score(report.password)
                    - keyboard_pattern_score(report.password)

\* the signals the monotonicity claim holds constant
SameSignals(r1, r2) ==
    /\ (r1.length >= 8) <=> (r2.length >= 8)
    /\ HasIssue(r1, MsgRepeat) <=> HasIssue(r2, MsgRepeat)
    /\ HasIssue(r1, MsgKeypat) <=> HasIssue(r2, MsgKeypat)
    /\ HasIssue(r1, MsgCommon) <=> HasIssue(r2, MsgCommon)

\* two reports of one batch, the later password having strictly more classes
ClassesAdded ==
    /\ prev # NoReport
    /\ Graded
    /\ Classes(prev.password) \subseteq Classes(report.password)
    /\ Classes(prev.password) # Classes(report.password)
    /\ SameSignals(prev, report)

\* C7: if the classes of p' strictly include those of p and the length
\* condition, the repeated flag, the keyboard flag and the dictionary result
\* are the same, score_metric for p' is at least score_metric for p.
C7_Monotone ==
    ClassesAdded => report.score_metric >= prev.score_metric

\* "abcdefgh" then "abcdefgH", both found in the set
C7_Witness ==
    /\ ClassesAdded
    /\ prev.password = W_abcdefgh
    /\ report.password = W_abcdefgH
    /\ HasIssue(report, MsgCommon)
    /\ report.score_metric = prev.score_metric + 1

\* 2^n
RECURSIVE Pow2(_)
Pow2(n) == IF n = 0 THEN 1 ELSE 2 * Pow2(n - 1)

\* C8: the entropy estimate is length * bit_length(c), c the sum of 26, 26,
\* 10, 32 over the classes present and bit_length(c) = floor(log2(c)) + 1; it
\* is 0 exactly for the empty password, never negative, 42 for "abcD1!".
C8_Entropy ==
    Graded =>
        LET p == report.password
            c == (IF "lower" \in Classes(p) THEN 26 ELSE 0)
               + (IF "upper" \in Classes(p) THEN 26 ELSE 0)
               + (IF "digit" \in Classes(p) THEN 10 ELSE 0)
               + (IF "symbol" \in Classes(p) THEN 32 ELSE 0)
        IN  /\ report.entropy_bits >= 0
            /\ (report.entropy_bits = 0) <=> (p = <<>>)
            /\ p # <<>> =>
                  \E b \in 1..7 :
                      /\ Pow2(b - 1) <= c
                      /\ c < Pow2(b)
                      /\ report.entropy_bits = Len(p) * b
            /\ p = W_abc \o W_D1bang => report.entropy_bits = 42

C8_Witness ==
    /\ Graded
    /\ report.password = <<"a","b","c","D","1","!">>
    /\ report.entropy_bits = 42

\* C9: the repeated flag is 1 exactly when the password is two or more
\* copies of a unit of length 1..floor(length/2), or some character, the
\* line break included, occurs 3 or more times in a row.
C9_Original ==
    Graded =>
        LET p == report.password
            n == Len(p)
            copies == \E u \in 1..(n \div 2) :
                         /\ n % u = 0
                         /\ \A i \in 1..n : p[i] = p[((i - 1) % u) + 1]
            run == \E j \in 1..(n - 2) : p[j] = p[j + 1] /\ p[j + 1] = p[j + 2]
        IN  /\ HasIssue(report, MsgRepeat) <=> (copies \/ run)
            /\ p = W_ababab => HasIssue(report, MsgRepeat)
            /\ p = <<"a","a","a">> => HasIssue(report, MsgRepeat)
            /\ p = W_abc \o W_def => ~HasIssue(report, MsgRepeat)

\* C10: a password found (itself or lowercased) in a non-empty set has
\* score_metric <= 0 and a label of "Weak" or "Medium", and the label is
\* "Medium" whenever the entropy estimate is >= 28.
C10_CommonNeverStrong ==
    (Graded /\ InSet(pw, common_set)) =>
        /\ report.score_metric <= 0
        /\ report.strength \in {"Weak", "Medium"}
        /\ report.entropy_bits >= 28 => report.strength = "Medium"

\* a listed password with every point of the score and a high entropy
C10_Witness ==
    /\ Graded
    /\ InSet(pw, common_set)
    /\ HasIssue(report, MsgCommon)
    /\ report.score_metric = 0
    /\ report.entropy_bits >= 60
    /\ report.strength = "Medium"

====
